---- MODULE Spec2Model ----
(***************************************************************************)
(* rtaudio-rs: the Host / Stream lifecycle (src/src/host.rs,               *)
(* src/src/stream.rs), the process-wide error-callback singleton and the   *)
(* realtime callbacks, as one state machine.                               *)
(*                                                                         *)
(* One control thread issues Host::new, open_stream, start, stop, close    *)
(* and drop; an operation that interacts with the realtime side is cut     *)
(* into the steps between which the realtime thread can run.  The backend  *)
(* (rtaudio_sys) is the environment: every FFI call reports one of a few   *)
(* raw error codes, chosen nondeterministically.                           *)
(***************************************************************************)
EXTENDS Integers, Sequences, FiniteSets, TLC

\* ---------------------------------------------------------------- bounds
\* Native handles rtaudio_create can hand out in one run.
MaxHandles == 2
\* Operations the control thread issues in one run.
MaxOps == 5

\* ------------------------------------------------------------- constants
\* std::ptr::null_mut(): the raw field of a Host / Stream that owns nothing.
Null == 0
\* The placeholder closure |_, _, _| {} installed in the CallbackContext.
NoOp == 0
\* rtaudio_sys::MAX_NAME_LENGTH: the C array the stream name is copied into.
MAX_NAME_LENGTH == 512

Handles == 1..MaxHandles
\* The user data callbacks a caller passes to start(): two closures.
Callbacks == {1, 2}

\* ---------------------------------------------------------- error kinds
\* RtAudioErrorType::from_raw: a raw code to Option<RtAudioErrorType>;
\* "None" is Option::None, every unlisted code becomes Unkown.
FromRaw_WarningFatal(e) ==
    IF e = "RTAUDIO_ERROR_NONE" THEN "None" ELSE "Unkown"
FromRaw(e) ==
    CASE e = "RTAUDIO_ERROR_NONE" -> "None"
      [] e = "RTAUDIO_ERROR_WARNING" -> "Warning"
      [] e = "RTAUDIO_ERROR_UNKNOWN" -> "Unkown"
      [] e = "RTAUDIO_ERROR_NO_DEVICES_FOUND" -> "NoDevicesFound"
      [] e = "RTAUDIO_ERROR_INVALID_DEVICE" -> "InvalidDevice"
      [] e = "RTAUDIO_ERROR_DEVICE_DISCONNECT" -> "DeviceDisconnect"
      [] e = "RTAUDIO_ERROR_MEMORY_ERROR" -> "MemoryError"
      [] e = "RTAUDIO_ERROR_INVALID_PARAMETER" -> "InvalidParamter"
      [] e = "RTAUDIO_ERROR_INVALID_USE" -> "InvalidUse"
      [] e = "RTAUDIO_ERROR_DRIVER_ERROR" -> "DriverError"
      [] e = "RTAUDIO_ERROR_SYSTEM_ERROR" -> "SystemError"
      [] e = "RTAUDIO_ERROR_THREAD_ERROR" -> "ThreadError"
      [] OTHER -> "Unkown"

\* check_for_error: "Ok" for no error and for a (logged) warning, otherwise
\* the kind of the error returned as Err.
CheckForError(e) ==
    LET type_ == FromRaw(e)
    IN  IF type_ = "None" THEN "Ok"
        ELSE IF type_ = "Warning" THEN "Ok"
        ELSE type_

\* `if let Err(e) = check_for_error(raw) { eprintln!("{}", e) }`: what a
\* teardown step adds to the record of the operation for raw code e.
Logged(e) == IF CheckForError(e) /= "Ok" THEN <<"eprintln">> ELSE << >>

\* Raw codes the backend reports after a control call.
CtlCodes == {"RTAUDIO_ERROR_NONE", "RTAUDIO_ERROR_WARNING", "RTAUDIO_ERROR_SYSTEM_ERROR"}
\* Raw codes the backend passes to the error callback; "RTAUDIO_ERROR_99" is
\* a code the binding does not list.
NotifyCodes == {"RTAUDIO_ERROR_NONE", "RTAUDIO_ERROR_WARNING",
                "RTAUDIO_ERROR_DEVICE_DISCONNECT", "RTAUDIO_ERROR_99"}

\* ------------------------------------------------------- open's inputs
\* Option<T> is a sequence: << >> is None, <<x>> is Some(x).
None == << >>
Some(x) == <<x>>
\* The (output_device, input_device) pairs open_stream is called with, each
\* an Option<DeviceParams>: None or Some(number of channels asked for).
OpenConfigs == {<<None, None>>, <<Some(2), None>>, <<None, Some(1)>>}
\* StreamOptions.name: its length in bytes and whether it holds a NUL byte.
StreamNames == {[len |-> 17, nul |-> FALSE], [len |-> 511, nul |-> FALSE],
                [len |-> 512, nul |-> FALSE], [len |-> 5, nul |-> TRUE]}
\* sample_rate and buffer_frames asked for.
OpenRequest == [sample_rate |-> 48000, buffer_frames |-> 256, sample_format |-> "Float32"]
\* What the backend negotiates: the buffer size written back, the latency
\* and the sample rate it reports (0: not reported).
BackendReports == {[frames |-> 256, latency |-> 0, rate |-> 0],
                   [frames |-> 256, latency |-> -1, rate |-> 0],
                   [frames |-> 512, latency |-> 64, rate |-> 44100]}

\* str_to_c_array: CString::new fails on an interior NUL; the bytes with the
\* terminating NUL must fit the array.
StrToCArrayOk_NoTerminator(name) ==
    /\ ~name.nul
    /\ ~(name.len > MAX_NAME_LENGTH)
StrToCArrayOk(name) ==
    /\ ~name.nul
    /\ ~(name.len + 1 > MAX_NAME_LENGTH)

\* StreamOptions::to_raw: "Ok" or the error it maps the failure to.
OptionsToRaw(name) ==
    IF StrToCArrayOk(name) THEN "Ok" ELSE "InvalidParamter"

\* StreamInfo as built before the backend call (Stream::new, lines 75-89).
RequestedInfo(out, in_, sample_format) ==
    [out_channels |-> IF out = None THEN 0 ELSE out[1],
     in_channels |-> IF in_ = None THEN 0 ELSE in_[1],
     sample_format |-> sample_format,
     sample_rate |-> OpenRequest.sample_rate,
     max_frames |-> OpenRequest.buffer_frames,
     latency |-> None,
     stream_time |-> 0]

\* (StreamInfo.deinterleaved, a flag copied from the options, is left out.)

\* info.latency after rtaudio_get_stream_latency (lines 154-157): set only
\* when the reported value is positive.
LatencyAfterQuery_Unconditional(latency, reported) == Some(reported)
LatencyAfterQuery(latency, reported) ==
    IF reported > 0 THEN Some(reported) ELSE latency

\* StreamInfo after the read-back of the negotiated values (lines 150-176).
NegotiatedInfo_Echo(i, rep) == i
NegotiatedInfo(i, rep) ==
    [i EXCEPT !.max_frames = rep.frames,
              !.latency = LatencyAfterQuery(i.latency, rep.latency),
              !.sample_rate = IF rep.rate > 0 THEN rep.rate ELSE i.sample_rate]

NoInfo == [out_channels |-> 0, in_channels |-> 0, sample_format |-> "None", sample_rate |-> 0,
           max_frames |-> 0, latency |-> None, stream_time |-> 0]

\* ------------------------------------------------------------------ state
VARIABLES
    created,      \* handles rtaudio_create has returned
    hostRaw,      \* handles held in the raw field of a live Host
    streamRaw,    \* handles held in the raw field of a live Stream
    destroyed,    \* per handle: how many times rtaudio_destroy was called
    uad,          \* a backend call was made on a destroyed handle
    bkOpen,       \* per handle: the backend stream is open
    bkRunning,    \* per handle: the backend may invoke the data callback
    started,      \* Stream.started
    cb,           \* CallbackContext.cb: NoOp or a user callback
    ctx,          \* the CallbackContext allocation: "none", "live", "freed"
    info,         \* Stream.info
    slot,         \* ERROR_CB_SINGLETON.cb: Null or the handle whose open set it
    errTaken,     \* the realtime error path between take() and the call
    rtIn,         \* per handle: None or Some(the callback the data path runs)
    pc,           \* the control thread's position
    nOps,         \* operations the control thread has issued
    pend,         \* Stream::new's locals between its steps
    ret,          \* the operation in progress or last returned
    trace,        \* what the operation in progress (or the last) did, in order
    regOwner,     \* the handle whose open made the registration now current
    regFatal,     \* non-warning notifications since the slot was last set
    regFires,     \* invocations of the handler the slot was last set to
    regFirst,     \* the raw code of the first of those, until it is delivered
    regFired,     \* "None", or how the handler's argument compares with it
    regWarned,    \* a warning or no-error notification arrived before any fatal one
    closes,       \* per handle: how many times close() has returned a Host for it
    bkRep,        \* per handle: what the backend negotiated for the open stream
    rtCtx,        \* CallbackContext.info as raw_data_callback reads and writes it
    rtCall,       \* the last call of raw_data_callback: its arguments and what it did
    devs,         \* the devices of the backend, in index order (SpecDev)
    devIter,      \* the DeviceIter in use: index, num_devices, and which function made it
    devItems,     \* what DeviceIter::next has returned since the iterator was made
    devFiltered,  \* what the filter_map of iter_devices has returned since then
    devLookup     \* the last call of get_device_info_by_index: index and result

vars == <<created, hostRaw, streamRaw, destroyed, uad, bkOpen, bkRunning, started, cb,
          ctx, info, slot, errTaken, rtIn, pc, nOps, pend, ret, trace,
          regOwner, regFatal, regFires, regFirst, regFired, regWarned, closes, bkRep,
          rtCtx, rtCall, devs, devIter, devItems, devFiltered, devLookup>>

handleVars == <<created, hostRaw, streamRaw, destroyed, uad>>
backendVars == <<bkOpen, bkRunning>>
streamVars == <<started, cb, ctx, info>>
bridgeVars == <<slot, errTaken>>
regVars == <<regOwner, regFatal, regFires, regFirst, regFired, regWarned>>
dataVars == <<rtCtx, rtCall>>
devVars == <<devs, devIter, devItems, devFiltered, devLookup>>

\* No stream is open on the handle: the backend has negotiated nothing.
NoReport == [frames |-> 0, latency |-> 0, rate |-> 0]
\* The realtime data path of the lifecycle machine is followed only as far
\* as which closure runs (rtIn); the body of raw_data_callback is followed
\* in SpecData below.
NoCtx == NoInfo
NoView == [variant |-> "None", output |-> 0, input |-> 0,
           out_deref |-> "none", in_deref |-> "none"]
NoCall == [out |-> "null", in_ |-> "null", frames |-> 0, stream_time |-> 0,
           userdata |-> "null", ret |-> 0, invoked |-> 0, wrote_time |-> 0,
           view |-> NoView, info |-> NoCtx]
\* Device enumeration is followed in SpecDev; elsewhere no device is listed
\* and nothing is enumerated.
NoDeviceIter == [index |-> 0, num_devices |-> 0, view |-> "none"]
NoLookup == [index |-> [hi |-> 0, lo |-> 0], tag |-> "none", id |-> 0, kind |-> "None"]
NoDevVars ==
    /\ devs = << >>
    /\ devIter = NoDeviceIter
    /\ devItems = << >>
    /\ devFiltered = << >>
    /\ devLookup = NoLookup
NoTaken == [handler |-> Null, kind |-> "None"]
\* pend: what an open in progress carries between its steps, and for an
\* open or a drop the handler its assignment to ERROR_CB_SINGLETON.cb
\* replaced (Null: the slot was empty), which is dropped by the assignment.
NoPend == [info |-> NoInfo, out |-> None, in_ |-> None, err |-> "Ok", displaced |-> Null]
\* ret: the operation, the handle it is on, its result ("Pending" until it
\* returns, "Ok", or the kind of the error), the raw of the Host it returned,
\* self.started and the installed callback as they were when it began, and
\* the callback passed to it (start only).
Ret(op, h, res, host, was, cb0) ==
    [op |-> op, h |-> h, res |-> res, host |-> host, was |-> was, cb0 |-> cb0,
     arg |-> NoOp]
NoRet == Ret("none", Null, "Ok", Null, FALSE, NoOp)

Init ==
    /\ created = {}
    /\ hostRaw = {}
    /\ streamRaw = {}
    /\ destroyed = [h \in Handles |-> 0]
    /\ uad = FALSE
    /\ bkOpen = [h \in Handles |-> FALSE]
    /\ bkRunning = [h \in Handles |-> FALSE]
    /\ started = [h \in Handles |-> FALSE]
    /\ cb = [h \in Handles |-> NoOp]
    /\ ctx = [h \in Handles |-> "none"]
    /\ info = [h \in Handles |-> NoInfo]
    /\ slot = Null
    /\ errTaken = NoTaken
    /\ rtIn = [h \in Handles |-> None]
    /\ pc = "idle"
    /\ nOps = 0
    /\ pend = NoPend
    /\ ret = NoRet
    /\ trace = << >>
    /\ regOwner = Null
    /\ regFatal = 0
    /\ regFires = 0
    /\ regFirst = "None"
    /\ regFired = "None"
    /\ regWarned = FALSE
    /\ closes = [h \in Handles |-> 0]
    /\ bkRep = [h \in Handles |-> NoReport]
    /\ rtCtx = NoCtx
    /\ rtCall = NoCall
    /\ NoDevVars

\* The ERROR_CB_SINGLETON mutex: the realtime error path holds the guard from
\* take() until the handler has returned (the guard is a temporary of the
\* `if let` scrutinee); every control-thread use locks, assigns and unlocks
\* in one statement.
MutexFree == errTaken = NoTaken

\* The control thread is between operations and issues one more.
Issue ==
    /\ pc = "idle"
    /\ nOps < MaxOps
    /\ nOps' = nOps + 1

\* A backend call on handle h: remembered if h was already destroyed.
Touch(h) == uad' = (uad \/ destroyed[h] > 0)

\* impl Drop for Host: rtaudio_destroy unless raw is null.
HostDropDestroys(raw) == raw /= Null

\* Stream::new, line 198: the Host's raw after the transfer to the Stream.
HostRawAfterTransfer_Kept(raw) == raw
HostRawAfterTransfer(raw) == Null

\* Stream::close, line 286: the Stream's raw after the transfer to the Host.
StreamRawAfterClose_Kept(raw) == raw
StreamRawAfterClose(raw) == Null

Destroy(d, h) == [d EXCEPT ![h] = IF @ < 2 THEN @ + 1 ELSE @]

\* ------------------------------------------------------------- Host::new
\* rtaudio_create returned a handle and check_for_error passed.
HostNew(h) ==
    /\ Issue
    /\ h \notin created
    /\ \A g \in Handles : (g < h) => g \in created
    /\ \E code \in CtlCodes :
         /\ CheckForError(code) = "Ok"
         /\ hostRaw' = hostRaw \cup {h}
         /\ ret' = Ret("new", h, "Ok", h, FALSE, NoOp)
         /\ UNCHANGED destroyed
    /\ created' = created \cup {h}
    /\ Touch(h)
    /\ trace' = <<"create">>
    /\ UNCHANGED <<pc, streamRaw, backendVars, streamVars, bridgeVars, rtIn, pend, regVars, closes, bkRep, dataVars, devVars>>

\* rtaudio_create returned a handle, check_for_error failed: `?` returns the
\* error and new_self is dropped.
HostNewFails(h) ==
    /\ Issue
    /\ h \notin created
    /\ \A g \in Handles : (g < h) => g \in created
    /\ \E code \in CtlCodes :
         /\ CheckForError(code) /= "Ok"
         /\ ret' = Ret("new", h, CheckForError(code), Null, FALSE, NoOp)
    /\ created' = created \cup {h}
    /\ destroyed' = IF HostDropDestroys(h) THEN Destroy(destroyed, h) ELSE destroyed
    /\ Touch(h)
    /\ trace' = <<"create", "destroy">>
    /\ UNCHANGED <<pc, hostRaw, streamRaw, backendVars, streamVars, bridgeVars, rtIn, pend, regVars, closes, bkRep, dataVars, devVars>>

\* rtaudio_create returned null: Err(Unkown), no Host is built.
HostNewNull ==
    /\ Issue
    /\ ret' = Ret("new", Null, "Unkown", Null, FALSE, NoOp)
    /\ trace' = <<"create">>
    /\ UNCHANGED <<pc, handleVars, backendVars, streamVars, bridgeVars, rtIn, pend, regVars, closes, bkRep, dataVars, devVars>>

\* A Host goes out of scope.
HostDrop(h) ==
    /\ Issue
    /\ h \in hostRaw
    /\ hostRaw' = hostRaw \ {h}
    /\ destroyed' = IF HostDropDestroys(h) THEN Destroy(destroyed, h) ELSE destroyed
    /\ uad' = (uad \/ (HostDropDestroys(h) /\ destroyed[h] > 0))
    /\ ret' = Ret("host_drop", h, "Ok", Null, FALSE, NoOp)
    /\ trace' = IF HostDropDestroys(h) THEN <<"destroy">> ELSE << >>
    /\ UNCHANGED <<pc, created, streamRaw, backendVars, streamVars, bridgeVars, rtIn, pend, regVars, closes, bkRep, dataVars, devVars>>

\* ------------------------------------------------- the registration record
\* The control thread assigns ERROR_CB_SINGLETON.cb (Some at open, None on a
\* failed open and in Drop for Stream): the registration that was current
\* ends and, for Some, a new one begins.
Register(owner) ==
    /\ regOwner' = owner
    /\ regFatal' = 0
    /\ regFires' = 0
    /\ regFirst' = "None"
    /\ regFired' = "None"
    /\ regWarned' = FALSE

\* ------------------------------------------------------- Host::open_stream
\* The raw codes rtaudio_open_stream can report: a request with neither
\* endpoint is rejected by the backend.
OpenCodes(out, in_) ==
    IF out = None /\ in_ = None THEN {"RTAUDIO_ERROR_INVALID_USE"} ELSE CtlCodes

\* `ERROR_CB_SINGLETON.lock().unwrap().cb = None` on a failure path: what
\* the slot holds afterwards.
RollbackSlot_Kept(s) == s
RollbackSlot(s) == Null

\* `return Err((host, e))`: the raw of the Host handed back to the caller.
ReturnedHostRaw_Nulled(raw) == Null
ReturnedHostRaw(raw) == raw

\* options.to_raw() fails: the Host is returned before anything else is done.
OpenInvalidOptions(h, out, in_, name) ==
    /\ Issue
    /\ h \in hostRaw
    /\ OptionsToRaw(name) /= "Ok"
    /\ hostRaw' = (hostRaw \ {h}) \cup ({ReturnedHostRaw(h)} \ {Null})
    /\ ret' = Ret("open", h, OptionsToRaw(name), ReturnedHostRaw(h), FALSE, NoOp)
    /\ trace' = << >>
    /\ UNCHANGED <<pc, created, streamRaw, destroyed, uad, backendVars, streamVars, bridgeVars,
                   rtIn, pend, regVars, closes, bkRep, dataVars, devVars>>

\* Lines 75-116: the StreamInfo, the pinned CallbackContext holding the
\* placeholder callback, and the handler stored in the singleton.
OpenRegister(h, out, in_, name) ==
    /\ Issue
    /\ h \in hostRaw
    /\ OptionsToRaw(name) = "Ok"
    /\ MutexFree
    /\ ctx' = [ctx EXCEPT ![h] = "live"]
    /\ cb' = [cb EXCEPT ![h] = NoOp]
    /\ slot' = h
    /\ Register(h)
    /\ pend' = [info |-> RequestedInfo(out, in_, OpenRequest.sample_format), out |-> out, in_ |-> in_, err |-> "Ok",
                displaced |-> slot]
    /\ pc' = "open_call"
    /\ ret' = Ret("open", h, "Pending", Null, FALSE, NoOp)
    /\ trace' = <<"ctx_alloc", "set_handler">>
    /\ UNCHANGED <<handleVars, backendVars, started, info, errTaken, rtIn, closes, bkRep, dataVars, devVars>>

\* rtaudio_open_stream reports an error (lines 126-139).
OpenCallFails ==
    /\ pc = "open_call"
    /\ \E code \in OpenCodes(pend.out, pend.in_) :
         /\ CheckForError(code) /= "Ok"
         /\ pend' = [pend EXCEPT !.err = CheckForError(code)]
    /\ Touch(ret.h)
    /\ pc' = "open_rollback"
    /\ trace' = trace \o <<"open_stream">>
    /\ UNCHANGED <<nOps, created, hostRaw, streamRaw, destroyed, backendVars, streamVars, bridgeVars,
                   rtIn, ret, regVars, closes, bkRep, dataVars, devVars>>

\* The stream opened; rtaudio_get_stream_latency reports an error (150-159).
OpenLatencyFails ==
    /\ pc = "open_call"
    /\ \E code \in OpenCodes(pend.out, pend.in_), lcode \in CtlCodes :
         /\ CheckForError(code) = "Ok"
         /\ CheckForError(lcode) /= "Ok"
         /\ pend' = [pend EXCEPT !.err = CheckForError(lcode)]
    /\ bkOpen' = [bkOpen EXCEPT ![ret.h] = TRUE]
    /\ Touch(ret.h)
    /\ pc' = "open_rollback"
    /\ trace' = trace \o <<"open_stream", "get_latency">>
    /\ UNCHANGED <<nOps, created, hostRaw, streamRaw, destroyed, bkRunning, streamVars, bridgeVars,
                   rtIn, ret, regVars, closes, bkRep, dataVars, devVars>>

\* The stream opened; rtaudio_get_stream_sample_rate reports an error (170-177).
OpenRateFails ==
    /\ pc = "open_call"
    /\ \E code \in OpenCodes(pend.out, pend.in_), lcode \in CtlCodes, rcode \in CtlCodes :
         /\ CheckForError(code) = "Ok"
         /\ CheckForError(lcode) = "Ok"
         /\ CheckForError(rcode) /= "Ok"
         /\ pend' = [pend EXCEPT !.err = CheckForError(rcode)]
    /\ bkOpen' = [bkOpen EXCEPT ![ret.h] = TRUE]
    /\ Touch(ret.h)
    /\ pc' = "open_rollback"
    /\ trace' = trace \o <<"open_stream", "get_latency", "get_sample_rate">>
    /\ UNCHANGED <<nOps, created, hostRaw, streamRaw, destroyed, bkRunning, streamVars, bridgeVars,
                   rtIn, ret, regVars, closes, bkRep, dataVars, devVars>>

\* All three backend calls passed (lines 188-200): the Stream takes the
\* handle, the Host is nulled and dropped.
OpenSucceeds ==
    /\ pc = "open_call"
    /\ \E code \in OpenCodes(pend.out, pend.in_), rep \in BackendReports,
          lcode \in CtlCodes, rcode \in CtlCodes :
         /\ CheckForError(code) = "Ok"
         /\ CheckForError(lcode) = "Ok"
         /\ CheckForError(rcode) = "Ok"
         /\ info' = [info EXCEPT ![ret.h] = NegotiatedInfo(pend.info, rep)]
         /\ bkRep' = [bkRep EXCEPT ![ret.h] = rep]
    /\ bkOpen' = [bkOpen EXCEPT ![ret.h] = TRUE]
    /\ Touch(ret.h)
    /\ started' = [started EXCEPT ![ret.h] = FALSE]
    /\ streamRaw' = streamRaw \cup {ret.h}
    /\ hostRaw' = hostRaw \ {ret.h}
    /\ LET left == HostRawAfterTransfer(ret.h)
       IN  /\ destroyed' = IF HostDropDestroys(left)
                           THEN Destroy(destroyed, left) ELSE destroyed
           /\ trace' = trace \o <<"open_stream", "get_latency", "get_sample_rate">>
                             \o (IF HostDropDestroys(left) THEN <<"destroy">> ELSE << >>)
    /\ pend' = NoPend
    /\ pc' = "idle"
    /\ ret' = [ret EXCEPT !.res = "Ok"]
    /\ UNCHANGED <<nOps, created, bkRunning, cb, ctx, bridgeVars, rtIn, regVars, closes, dataVars, devVars>>

\* The failure path after the backend call: rtaudio_close_stream, the
\* singleton set to None, `return Err((host, e))`; cb_context is dropped as
\* the function returns.
OpenRollback ==
    /\ pc = "open_rollback"
    /\ MutexFree
    /\ rtIn[ret.h] = None
    /\ bkOpen' = [bkOpen EXCEPT ![ret.h] = FALSE]
    /\ bkRunning' = [bkRunning EXCEPT ![ret.h] = FALSE]
    /\ Touch(ret.h)
    /\ slot' = RollbackSlot(slot)
    /\ Register(RollbackSlot(regOwner))
    /\ ctx' = [ctx EXCEPT ![ret.h] = "freed"]
    /\ hostRaw' = (hostRaw \ {ret.h}) \cup ({ReturnedHostRaw(ret.h)} \ {Null})
    /\ ret' = [ret EXCEPT !.res = pend.err, !.host = ReturnedHostRaw(ret.h)]
    /\ pend' = NoPend
    /\ pc' = "idle"
    /\ trace' = trace \o <<"close_stream", "clear_handler", "ctx_free">>
    /\ UNCHANGED <<nOps, created, streamRaw, destroyed, started, cb, info, errTaken, rtIn, closes, bkRep, dataVars, devVars>>

\* ------------------------------------------------- raw_error_callback
\* Option::take on the singleton's cb: what is left in the slot.
TakeLeaves_Keeps(s) == s
TakeLeaves(s) == Null

Cap2(n) == IF n < 2 THEN n + 1 ELSE n

\* The kind a handler is to see for a raw code the backend passed: the
\* listed kind, Unkown for a code that is not listed.
ExpectedKind(code) ==
    CASE code = "RTAUDIO_ERROR_DEVICE_DISCONNECT" -> "DeviceDisconnect"
      [] code = "RTAUDIO_ERROR_99" -> "Unkown"
      [] OTHER -> "None"

\* from_raw gives None, or the kind is Warning: return at once.
ErrIgnored(code) ==
    /\ \E h \in Handles : bkOpen[h]
    /\ FromRaw(code) \in {"None", "Warning"}
    /\ regWarned' = (regWarned \/ (regOwner /= Null /\ regFatal = 0))
    /\ UNCHANGED <<nOps, handleVars, backendVars, streamVars, bridgeVars, rtIn, pc, pend, ret,
                   trace, regOwner, regFatal, regFires, regFirst, regFired, closes, bkRep, dataVars, devVars>>

\* A non-warning error while the slot holds a handler: lock, take it.
ErrTake(code) ==
    /\ \E h \in Handles : bkOpen[h]
    /\ FromRaw(code) \notin {"None", "Warning"}
    /\ MutexFree
    /\ slot /= Null
    /\ errTaken' = [handler |-> slot, kind |-> FromRaw(code)]
    /\ slot' = TakeLeaves(slot)
    /\ regFatal' = Cap2(regFatal)
    /\ regFirst' = IF regFatal = 0 THEN code ELSE regFirst
    /\ UNCHANGED <<nOps, handleVars, backendVars, streamVars, rtIn, pc, pend, ret, trace,
                   regOwner, regFires, regFired, closes, bkRep, regWarned, dataVars, devVars>>

\* A non-warning error while the slot is empty: lock, take None, unlock.
ErrMiss(code) ==
    /\ \E h \in Handles : bkOpen[h]
    /\ FromRaw(code) \notin {"None", "Warning"}
    /\ MutexFree
    /\ slot = Null
    /\ regFatal' = IF regOwner /= Null THEN Cap2(regFatal) ELSE regFatal
    /\ regFirst' = regFirst
    /\ UNCHANGED <<nOps, handleVars, backendVars, streamVars, bridgeVars, rtIn, pc, pend, ret,
                   trace, regOwner, regFires, regFired, closes, bkRep, regWarned, dataVars, devVars>>

\* self.started of the stream whose handler is delivered an error:
\* raw_error_callback has no access to the Stream and leaves it as it was.
StartedAfterDelivery_Cleared(was) == FALSE
StartedAfterDelivery(was) == was

\* The end of the `if let` statement of raw_error_callback (line 408): the
\* MutexGuard of its scrutinee is dropped and the mutex is free again.
GuardAfterHandler_Leaked(taken) == taken
GuardAfterHandler(taken) == NoTaken

\* (cb)(e): the taken handler runs and returns; the guard is released.
ErrInvoke ==
    /\ errTaken /= NoTaken
    /\ started' = [h \in Handles |-> IF h = errTaken.handler
                                     THEN StartedAfterDelivery(started[h])
                                     ELSE started[h]]
    /\ regFires' = Cap2(regFires)
    /\ regFired' = IF regFires = 0 /\ errTaken.handler = regOwner
                      /\ errTaken.kind = ExpectedKind(regFirst)
                   THEN "same" ELSE "other"
    /\ regFirst' = "None"
    /\ errTaken' = GuardAfterHandler(errTaken)
    /\ UNCHANGED <<nOps, handleVars, backendVars, cb, ctx, info, slot, rtIn, pc, pend, ret,
                   trace, regOwner, regFatal, closes, bkRep, regWarned, dataVars, devVars>>

\* ------------------------------------------------------ raw_data_callback
\* Stream.info, which info() returns, after raw_data_callback has executed
\* `cb_context.info.stream_time = stream_time` (line 344): the context's
\* info is a clone made at line 188, so the write does not reach it.
StreamInfoSeenByControl_Aliased(i, stream_time) == [i EXCEPT !.stream_time = stream_time]
StreamInfoSeenByControl(i, stream_time) == i

\* The stream times (in ticks) the backend passes.
StreamTimes == {1, 2, 3}

\* The backend's realtime thread enters the data callback of a running
\* stream: it calls the closure the CallbackContext holds at that moment.
DataBegin(h) ==
    /\ bkRunning[h]
    /\ rtIn[h] = None
    /\ rtIn' = [rtIn EXCEPT ![h] = Some(cb[h])]
    /\ \E stream_time \in StreamTimes :
         info' = [info EXCEPT ![h] = StreamInfoSeenByControl(@, stream_time)]
    /\ UNCHANGED <<nOps, handleVars, backendVars, started, cb, ctx, bridgeVars, pc, pend, ret, trace,
                   regVars, closes, bkRep, dataVars, devVars>>

\* The closure returns and raw_data_callback returns 0.
DataEnd(h) ==
    /\ rtIn[h] /= None
    /\ rtIn' = [rtIn EXCEPT ![h] = None]
    /\ UNCHANGED <<nOps, handleVars, backendVars, streamVars, bridgeVars, pc, pend, ret, trace,
                   regVars, closes, bkRep, dataVars, devVars>>

\* ------------------------------------------------- the backend's stop/start
\* rtaudio_stop_stream on h: the raw code it reports and whether, when it
\* returns, the backend guarantees that no data callback runs or will run.
\* It gives no such guarantee only when it reports a failure to stop a
\* running stream.
StopOutcomes(h) ==
    {o \in [code : CtlCodes, quiesced : BOOLEAN] :
        ~o.quiesced => (CheckForError(o.code) /= "Ok" /\ bkRunning[h])}

\* rtaudio_start_stream on h: the raw code it reports and whether the
\* realtime thread runs afterwards.  A reported failure may still have set
\* the thread going.
StartOutcomes(h) ==
    {o \in [code : CtlCodes, running : BOOLEAN] :
        ~o.running => (CheckForError(o.code) /= "Ok" /\ ~bkRunning[h])}

\* ---------------------------------------------------------- Stream::start
\* `self.cb_context.cb = Box::new(data_callback)`: the field afterwards.
InstallCallback_Dropped(old, new) == old
InstallCallback(old, new) == new

\* Line 219: the new closure replaces the one in the CallbackContext.
StartInstall(h, c) ==
    /\ Issue
    /\ h \in streamRaw
    /\ c /= cb[h]
    /\ cb' = [cb EXCEPT ![h] = InstallCallback(@, c)]
    /\ pc' = "start_arm"
    /\ ret' = [Ret("start", h, "Pending", Null, started[h], cb[h]) EXCEPT !.arg = c]
    /\ trace' = <<"set_cb">>
    /\ UNCHANGED <<handleVars, backendVars, started, ctx, info, bridgeVars, rtIn, pend,
                   regVars, closes, bkRep, dataVars, devVars>>

\* The value of self.started after a start() that returns Err: the early
\* return leaves the field as it was.
StartedAfterFailedStart(was) == was

\* rtaudio_start_stream passed check_for_error: started = true, Ok(()).
StartArmOk ==
    /\ pc = "start_arm"
    /\ \E o \in StartOutcomes(ret.h) :
         /\ CheckForError(o.code) = "Ok"
         /\ bkRunning' = [bkRunning EXCEPT ![ret.h] = o.running]
    /\ Touch(ret.h)
    /\ started' = [started EXCEPT ![ret.h] = TRUE]
    /\ ret' = [ret EXCEPT !.res = "Ok"]
    /\ pc' = "idle"
    /\ trace' = trace \o <<"start_stream">>
    /\ UNCHANGED <<nOps, created, hostRaw, streamRaw, destroyed, bkOpen, cb, ctx, info, bridgeVars, rtIn,
                   pend, regVars, closes, bkRep, dataVars, devVars>>

\* rtaudio_start_stream failed: rtaudio_stop_stream, return Err(e).
StartArmFails ==
    /\ pc = "start_arm"
    /\ \E o \in StartOutcomes(ret.h), quiesced \in BOOLEAN :
         /\ CheckForError(o.code) /= "Ok"
         /\ ~quiesced => o.running
         /\ quiesced => rtIn[ret.h] = None
         /\ bkRunning' = [bkRunning EXCEPT ![ret.h] = IF quiesced THEN FALSE ELSE o.running]
         /\ ret' = [ret EXCEPT !.res = CheckForError(o.code)]
    /\ Touch(ret.h)
    /\ started' = [started EXCEPT ![ret.h] = StartedAfterFailedStart(@)]
    /\ pc' = "idle"
    /\ trace' = trace \o <<"start_stream", "stop_stream">>
    /\ UNCHANGED <<nOps, created, hostRaw, streamRaw, destroyed, bkOpen, cb, ctx, info, bridgeVars, rtIn,
                   pend, regVars, closes, bkRep, dataVars, devVars>>

\* ----------------------------------------------------------- Stream::stop
\* `if self.started`: whether stop() does anything.
StopActs_Always(h) == TRUE
StopActs(h) == started[h]

\* stop() on a stream whose flag is false: nothing.
StopNoop(h) ==
    /\ Issue
    /\ h \in streamRaw
    /\ ~StopActs(h)
    /\ ret' = Ret("stop", h, "Ok", Null, started[h], NoOp)
    /\ trace' = << >>
    /\ UNCHANGED <<pc, handleVars, backendVars, streamVars, bridgeVars, rtIn, pend, regVars, closes, bkRep, dataVars, devVars>>

\* Lines 251-255 for handle h, as part of operation op: rtaudio_stop_stream,
\* then check_for_error whose error is only printed.
StopCallStep(h, op, before) ==
    /\ \E o \in StopOutcomes(h) :
         /\ o.quiesced => rtIn[h] = None
         /\ bkRunning' = [bkRunning EXCEPT ![h] = IF o.quiesced THEN FALSE ELSE @]
         /\ trace' = before \o <<"stop_stream">> \o Logged(o.code)
    /\ Touch(h)
    /\ pc' = "stop_swap"
    /\ ret' = Ret(op, h, "Pending", Null, started[h], NoOp)

StopCall(h) ==
    /\ Issue
    /\ h \in streamRaw
    /\ StopActs(h)
    /\ StopCallStep(h, "stop", << >>)
    /\ UNCHANGED <<created, hostRaw, streamRaw, destroyed, bkOpen, streamVars, bridgeVars, rtIn,
                   pend, regVars, closes, bkRep, dataVars, devVars>>

\* Lines 261-263: the placeholder replaces the user's callback, started =
\* false; stop() returns to its caller (the user, close() or drop()), which
\* goes on after its `self.stop()` (line 277 of close, line 303 of drop).
AfterStop_DropReturns(op) == IF op = "close" THEN "close_fin" ELSE "idle"
AfterStop(op) ==
    CASE op = "stop" -> "idle"
      [] op = "close" -> "close_fin"
      [] OTHER -> "drop_fin"

\* Line 261, `self.cb_context.cb = Box::new(|_, _, _| {})`: the callback
\* field after stop(), `failed` telling whether check_for_error gave Err
\* after rtaudio_stop_stream; the statement is outside that `if let`.
CallbackAfterStop_KeptOnError(old, failed) == IF failed THEN old ELSE NoOp
CallbackAfterStop(old, failed) == NoOp

StopSwap ==
    /\ pc = "stop_swap"
    /\ cb' = [cb EXCEPT ![ret.h] =
                 CallbackAfterStop(@, \E i \in 1..Len(trace) : trace[i] = "eprintln")]
    /\ started' = [started EXCEPT ![ret.h] = FALSE]
    /\ trace' = trace \o <<"set_noop">>
    /\ pc' = AfterStop(ret.op)
    /\ ret' = IF ret.op = "stop" THEN [ret EXCEPT !.res = "Ok"] ELSE ret
    /\ UNCHANGED <<nOps, handleVars, backendVars, ctx, info, bridgeVars, rtIn, pend, regVars, closes, bkRep, dataVars, devVars>>

\* `ERROR_CB_SINGLETON.lock().unwrap().cb = None` at the top of Drop for
\* Stream (line 295): what the slot holds afterwards.
DropSlot_Kept(s) == s
DropSlot(s) == Null

\* ---------------------------------------------------------- Stream::close
\* close() on a started stream: self.stop() calls the backend.
CloseStops(h) ==
    /\ Issue
    /\ h \in streamRaw
    /\ StopActs(h)
    /\ StopCallStep(h, "close", << >>)
    /\ UNCHANGED <<created, hostRaw, streamRaw, destroyed, bkOpen, streamVars, bridgeVars, rtIn,
                   pend, regVars, closes, bkRep, dataVars, devVars>>

\* close() on a stream whose flag is false: self.stop() does nothing.
CloseSkipsStop(h) ==
    /\ Issue
    /\ h \in streamRaw
    /\ ~StopActs(h)
    /\ pc' = "close_fin"
    /\ ret' = Ret("close", h, "Pending", Null, started[h], NoOp)
    /\ trace' = << >>
    /\ UNCHANGED <<handleVars, backendVars, streamVars, bridgeVars, rtIn, pend, regVars, closes, bkRep, dataVars, devVars>>

\* Drop for Stream after the singleton was cleared (lines 298-313), for a
\* Stream whose raw is `raw` and whose started flag is false: what it calls.
StreamDropCalls_NoClose(raw, code) ==
    IF raw = Null THEN << >> ELSE <<"destroy">>
StreamDropCalls(raw, code) ==
    IF raw = Null THEN << >> ELSE <<"close_stream">> \o Logged(code) \o <<"destroy">>

\* Lines 277-289: rtaudio_close_stream (its error only printed), the Host
\* built on the same raw, self.raw nulled; then self is dropped: Drop for
\* Stream clears the singleton and returns at the null check, and the
\* CallbackContext is freed.
CloseFin ==
    /\ pc = "close_fin"
    /\ MutexFree
    /\ rtIn[ret.h] = None
    /\ bkOpen' = [bkOpen EXCEPT ![ret.h] = FALSE]
    /\ bkRunning' = [bkRunning EXCEPT ![ret.h] = FALSE]
    /\ Touch(ret.h)
    /\ hostRaw' = hostRaw \cup {ret.h}
    /\ streamRaw' = streamRaw \ {ret.h}
    /\ closes' = [closes EXCEPT ![ret.h] = Cap2(@)]
    /\ bkRep' = [bkRep EXCEPT ![ret.h] = NoReport]
    /\ slot' = DropSlot(slot)
    /\ Register(Null)
    /\ \E code \in CtlCodes :
         LET left == StreamRawAfterClose(ret.h)
         IN  /\ destroyed' = IF left /= Null THEN Destroy(destroyed, left) ELSE destroyed
             /\ trace' = trace \o <<"close_stream">> \o Logged(code) \o <<"clear_handler">>
                               \o StreamDropCalls(left, code) \o <<"ctx_free">>
    /\ ctx' = [ctx EXCEPT ![ret.h] = "freed"]
    /\ started' = [started EXCEPT ![ret.h] = FALSE]
    /\ cb' = [cb EXCEPT ![ret.h] = NoOp]
    /\ info' = [info EXCEPT ![ret.h] = NoInfo]
    /\ ret' = [ret EXCEPT !.res = "Ok", !.host = ret.h]
    /\ pc' = "idle"
    /\ UNCHANGED <<nOps, created, errTaken, rtIn, pend, dataVars, devVars>>

\* --------------------------------------------------------- Drop for Stream
\* A Stream goes out of scope while started: the singleton is cleared, raw
\* is not null, self.stop() calls the backend.
DropStops(h) ==
    /\ Issue
    /\ h \in streamRaw
    /\ MutexFree
    /\ StopActs(h)
    /\ slot' = DropSlot(slot)
    /\ Register(Null)
    /\ pend' = [NoPend EXCEPT !.displaced = slot]
    /\ StopCallStep(h, "drop", <<"clear_handler">>)
    /\ UNCHANGED <<created, hostRaw, streamRaw, destroyed, bkOpen, streamVars, errTaken, rtIn, closes, bkRep, dataVars, devVars>>

\* A Stream goes out of scope while its flag is false.
DropSkipsStop(h) ==
    /\ Issue
    /\ h \in streamRaw
    /\ MutexFree
    /\ ~StopActs(h)
    /\ slot' = DropSlot(slot)
    /\ Register(Null)
    /\ pend' = [NoPend EXCEPT !.displaced = slot]
    /\ pc' = "drop_fin"
    /\ ret' = Ret("drop", h, "Pending", Null, started[h], NoOp)
    /\ trace' = <<"clear_handler">>
    /\ UNCHANGED <<handleVars, backendVars, streamVars, errTaken, rtIn, closes, bkRep, dataVars, devVars>>

\* Lines 305-313: rtaudio_close_stream (its error only printed),
\* rtaudio_destroy; the CallbackContext is freed with the Stream.
DropFin ==
    /\ pc = "drop_fin"
    /\ rtIn[ret.h] = None
    /\ bkOpen' = [bkOpen EXCEPT ![ret.h] = FALSE]
    /\ bkRunning' = [bkRunning EXCEPT ![ret.h] = FALSE]
    /\ Touch(ret.h)
    /\ streamRaw' = streamRaw \ {ret.h}
    /\ destroyed' = Destroy(destroyed, ret.h)
    /\ bkRep' = [bkRep EXCEPT ![ret.h] = NoReport]
    /\ \E code \in CtlCodes :
         trace' = trace \o StreamDropCalls(ret.h, code) \o <<"ctx_free">>
    /\ ctx' = [ctx EXCEPT ![ret.h] = "freed"]
    /\ started' = [started EXCEPT ![ret.h] = FALSE]
    /\ cb' = [cb EXCEPT ![ret.h] = NoOp]
    /\ info' = [info EXCEPT ![ret.h] = NoInfo]
    /\ ret' = [ret EXCEPT !.res = "Ok"]
    /\ pc' = "idle"
    /\ pend' = NoPend
    /\ UNCHANGED <<nOps, created, hostRaw, bridgeVars, rtIn, regVars, closes, dataVars, devVars>>

Next ==
    \/ \E h \in Handles : HostNew(h)
    \/ \E h \in Handles : HostNewFails(h)
    \/ HostNewNull
    \/ \E h \in Handles : HostDrop(h)
    \/ \E h \in Handles, cfg \in OpenConfigs, name \in StreamNames :
         OpenInvalidOptions(h, cfg[1], cfg[2], name)
    \/ \E h \in Handles, cfg \in OpenConfigs, name \in StreamNames :
         OpenRegister(h, cfg[1], cfg[2], name)
    \/ OpenCallFails
    \/ OpenLatencyFails
    \/ OpenRateFails
    \/ OpenSucceeds
    \/ OpenRollback
    \/ \E h \in Handles, c \in Callbacks : StartInstall(h, c)
    \/ StartArmOk
    \/ StartArmFails
    \/ \E h \in Handles : StopNoop(h)
    \/ \E h \in Handles : StopCall(h)
    \/ StopSwap
    \/ \E h \in Handles : CloseStops(h)
    \/ \E h \in Handles : CloseSkipsStop(h)
    \/ CloseFin
    \/ \E h \in Handles : DropStops(h)
    \/ \E h \in Handles : DropSkipsStop(h)
    \/ DropFin
    \/ \E h \in Handles : DataBegin(h)
    \/ \E h \in Handles : DataEnd(h)
    \/ \E code \in NotifyCodes : ErrIgnored(code)
    \/ \E code \in NotifyCodes : ErrTake(code)
    \/ \E code \in NotifyCodes : ErrMiss(code)
    \/ ErrInvoke

Spec == Init /\ [][Next]_vars

\* ------------------------------------------------------------- scheduling
\* A step of a control operation that has been issued: the control thread
\* goes on whenever the lock it waits for is free and the backend call it
\* is in has returned.
ControlStep ==
    \/ OpenCallFails
    \/ OpenLatencyFails
    \/ OpenRateFails
    \/ OpenSucceeds
    \/ OpenRollback
    \/ StartArmOk
    \/ StartArmFails
    \/ StopSwap
    \/ CloseFin
    \/ DropFin

\* Spec under fair scheduling: the control thread is scheduled (strongly:
\* std::sync::Mutex::lock and the backend's join both wait until they can
\* proceed), the error handler returns, and so does every data callback.
SpecFair ==
    /\ Spec
    /\ SF_vars(ControlStep)
    /\ WF_vars(ErrInvoke)
    /\ \A h \in Handles : WF_vars(DataEnd(h))

\* ============================================ the body of raw_data_callback
\* SpecData follows one started stream through calls of raw_data_callback
\* with every argument the backend could pass; the lifecycle variables stay
\* as Host::new, open_stream and start(cb) left them.
lifeVars == <<handleVars, backendVars, streamVars, bridgeVars, regVars, rtIn, pc, nOps,
              pend, ret, trace, closes, bkRep>>

\* enum SampleFormat.
SampleFormats == {"SInt8", "SInt16", "SInt24", "SInt32", "Float32", "Float64"}
\* A raw pointer argument: null or pointing at a buffer of the backend.
Pointers == {"null", "valid"}
\* The (output_device, input_device) pairs the stream was opened with.
DataConfigs == {<<Some(2), None>>, <<None, Some(1)>>, <<Some(2), Some(2)>>,
                <<Some(1), Some(2)>>}
\* The frame counts the backend passes.
DataFrames == {0, 1, 255, 256, 512}

\* One arm's slice: empty for a null pointer or no channels, otherwise
\* slice::from_raw_parts(ptr, len), which reads through ptr.
Slice_Unchecked(ptr, channels, len) == [len |-> len, deref |-> ptr]
Slice(ptr, channels, len) ==
    IF ptr = "null" \/ channels = 0
    THEN [len |-> 0, deref |-> "none"]
    ELSE [len |-> len, deref |-> ptr]

\* Buffers::from_raw: one arm per sample format; SInt24 is presented as
\* bytes, three per sample.
BuffersFromRaw_Swapped(out, in_, frames, out_channels, in_channels, sample_format) ==
    [variant |-> sample_format,
     output |-> Slice(in_, in_channels, in_channels * frames).len,
     input |-> Slice(out, out_channels, out_channels * frames).len,
     out_deref |-> Slice(in_, in_channels, in_channels * frames).deref,
     in_deref |-> Slice(out, out_channels, out_channels * frames).deref]
BuffersFromRaw(out, in_, frames, out_channels, in_channels, sample_format) ==
    LET arm(variant, output, input) ==
            [variant |-> variant, output |-> output.len, input |-> input.len,
             out_deref |-> output.deref, in_deref |-> input.deref]
    IN  CASE sample_format = "SInt8" ->
               arm("SInt8", Slice(out, out_channels, out_channels * frames),
                            Slice(in_, in_channels, in_channels * frames))
          [] sample_format = "SInt16" ->
               arm("SInt16", Slice(out, out_channels, out_channels * frames),
                             Slice(in_, in_channels, in_channels * frames))
          [] sample_format = "SInt24" ->
               arm("SInt24", Slice(out, out_channels, out_channels * frames * 3),
                             Slice(in_, in_channels, in_channels * frames * 3))
          [] sample_format = "SInt32" ->
               arm("SInt32", Slice(out, out_channels, out_channels * frames),
                             Slice(in_, in_channels, in_channels * frames))
          [] sample_format = "Float32" ->
               arm("Float32", Slice(out, out_channels, out_channels * frames),
                              Slice(in_, in_channels, in_channels * frames))
          [] sample_format = "Float64" ->
               arm("Float64", Slice(out, out_channels, out_channels * frames),
                              Slice(in_, in_channels, in_channels * frames))

\* The state after Host::new, open_stream(cfg, fmt, OpenRequest, ..) with
\* the backend negotiating rep, and start(cb) on handle 1.
DataInit ==
    \E cfg \in DataConfigs, fmt \in SampleFormats, rep \in BackendReports :
        LET i == NegotiatedInfo(RequestedInfo(cfg[1], cfg[2], fmt), rep)
            one(x, rest) == [h \in Handles |-> IF h = 1 THEN x ELSE rest]
        IN  /\ created = {1}
            /\ hostRaw = {}
            /\ streamRaw = {1}
            /\ destroyed = [h \in Handles |-> 0]
            /\ uad = FALSE
            /\ bkOpen = one(TRUE, FALSE)
            /\ bkRunning = one(TRUE, FALSE)
            /\ started = one(TRUE, FALSE)
            /\ cb = one(1, NoOp)
            /\ ctx = one("live", "none")
            /\ info = one(i, NoInfo)
            /\ slot = 1
            /\ errTaken = NoTaken
            /\ rtIn = [h \in Handles |-> None]
            /\ pc = "idle"
            /\ nOps = 3
            /\ pend = NoPend
            /\ ret = [Ret("start", 1, "Ok", Null, FALSE, NoOp) EXCEPT !.arg = 1]
            /\ trace = <<"set_cb", "start_stream">>
            /\ regOwner = 1
            /\ regFatal = 0
            /\ regFires = 0
            /\ regFirst = "None"
            /\ regFired = "None"
            /\ regWarned = FALSE
            /\ closes = [h \in Handles |-> 0]
            /\ bkRep = one(rep, NoReport)
            /\ rtCtx = i
            /\ rtCall = NoCall
            /\ NoDevVars

\* Lines 330-335: whether raw_data_callback gets past its two early returns
\* (null userdata, frames == 0) to the user callback.
ReachesCallback_AnyFrames(userdata, frames) == userdata /= "null"
ReachesCallback(userdata, frames) == userdata /= "null" /\ frames /= 0

\* The value raw_data_callback returns: 2 tells the backend to abort the
\* stream, 0 to go on.
CallbackReturn(userdata, frames) == IF userdata = "null" THEN 2 ELSE 0

\* Line 344: cb_context.info.stream_time = stream_time.
WithStreamTime_Stale(i, stream_time) == i
WithStreamTime(i, stream_time) == [i EXCEPT !.stream_time = stream_time]

\* raw_data_callback(out, in_, frames, stream_time, status, userdata); the
\* status bits are passed through to the user callback and not followed.
RawDataCallback(out, in_, frames, stream_time, userdata) ==
    LET call == [NoCall EXCEPT !.out = out, !.in_ = in_, !.frames = frames,
                               !.stream_time = stream_time, !.userdata = userdata,
                               !.ret = CallbackReturn(userdata, frames)]
    IN  /\ IF ~ReachesCallback(userdata, frames)
           THEN /\ rtCall' = call
                /\ UNCHANGED <<rtCtx, info>>
           ELSE /\ rtCtx' = WithStreamTime(rtCtx, stream_time)
                /\ info' = [info EXCEPT ![1] = StreamInfoSeenByControl(@, stream_time)]
                /\ rtCall' = [call EXCEPT
                       !.wrote_time = 1,
                       !.invoked = 1,
                       !.view = BuffersFromRaw(out, in_, frames, rtCtx'.out_channels,
                                               rtCtx'.in_channels, rtCtx'.sample_format),
                       !.info = rtCtx']
        /\ UNCHANGED <<handleVars, backendVars, started, cb, ctx, bridgeVars, regVars, rtIn, pc,
                       nOps, pend, ret, trace, closes, bkRep>>
        /\ UNCHANGED devVars

DataNext ==
    \E out \in Pointers, in_ \in Pointers, frames \in DataFrames,
       stream_time \in StreamTimes, userdata \in Pointers :
        RawDataCallback(out, in_, frames, stream_time, userdata)

SpecData == DataInit /\ [][DataNext]_vars

\* ===================================================== device enumeration
\* SpecDev follows one live Host through get_device_info_by_index and the
\* device iterators, over every small device table of the backend.
\* Devices the backend lists at most.
MaxDevices == 2
\* Calls of DeviceIter::next past the end that are followed.
MaxEnds == 2

\* The raw codes rtaudio_error_type reports during enumeration.
ScanCodes == {"RTAUDIO_ERROR_NONE", "RTAUDIO_ERROR_WARNING", "RTAUDIO_ERROR_INVALID_DEVICE"}
\* One device of the backend: the error state of the handle when
\* check_for_error reads it after rtaudio_get_device_id (`pre`) and after
\* rtaudio_get_device_info (`scan`) for this device.
DeviceEntries == [pre : {"RTAUDIO_ERROR_NONE", "RTAUDIO_ERROR_INVALID_DEVICE"}, scan : ScanCodes]
DeviceTables == UNION {[1..n -> DeviceEntries] : n \in 0..MaxDevices}
\* The id the backend gives the device at 0-based position k: never 0.
DeviceIdAt(k) == 129 + k
IndexOfId(id) == id - 129

\* A usize as hi * 2^31 + lo with 0 <= lo < 2^31; hi > 3 is not needed, and
\* hi > 1 exists only where usize has 64 bits.
Usize(n) == [hi |-> 0, lo |-> n]
UsizeIndices == [hi : 0..2, lo : {0, 1, 2, 3, 2147483647}]
\* index >= n for a small n.
UsizeAtLeast(index, n) == index.hi > 0 \/ index.lo >= n
\* `index as c_int`: the low 32 bits, read as a signed integer.
AsCInt(index) == IF index.hi % 2 = 1 THEN index.lo - 2147483647 - 1 ELSE index.lo

\* rtaudio_device_count, and num_devices: `num_devices.max(0) as usize`.
RtaudioDeviceCount == Len(devs)
NumDevices == IF RtaudioDeviceCount > 0 THEN RtaudioDeviceCount ELSE 0

\* rtaudio_get_device_id(raw, i): the id at position i, 0 if there is none.
RtaudioGetDeviceId(i) == IF i >= 0 /\ i < Len(devs) THEN DeviceIdAt(i) ELSE 0

DevOk(id) == [tag |-> "Ok", id |-> id, kind |-> "None"]
DevErr(kind) == [tag |-> "Err", id |-> 0, kind |-> kind]

\* get_device_info_by_id for an id the backend listed: rtaudio_get_device_info,
\* check_for_error, DeviceInfo::from_raw.
GetDeviceInfoById(id) ==
    LET code == devs[IndexOfId(id) + 1].scan
    IN  IF CheckForError(code) /= "Ok" THEN DevErr(CheckForError(code)) ELSE DevOk(id)

\* get_device_info_by_index.
GetDeviceInfoByIndex(index) ==
    LET id == RtaudioGetDeviceId(AsCInt(index))
    IN  IF id = 0 THEN DevErr("InvalidParamter")
        ELSE IF CheckForError(devs[IndexOfId(id) + 1].pre) /= "Ok"
        THEN DevErr(CheckForError(devs[IndexOfId(id) + 1].pre))
        ELSE GetDeviceInfoById(id)

\* A live Host on a backend with any device table.
DevInit ==
    /\ created = {1}
    /\ hostRaw = {1}
    /\ streamRaw = {}
    /\ destroyed = [h \in Handles |-> 0]
    /\ uad = FALSE
    /\ bkOpen = [h \in Handles |-> FALSE]
    /\ bkRunning = [h \in Handles |-> FALSE]
    /\ started = [h \in Handles |-> FALSE]
    /\ cb = [h \in Handles |-> NoOp]
    /\ ctx = [h \in Handles |-> "none"]
    /\ info = [h \in Handles |-> NoInfo]
    /\ slot = Null
    /\ errTaken = NoTaken
    /\ rtIn = [h \in Handles |-> None]
    /\ pc = "idle"
    /\ nOps = 1
    /\ pend = NoPend
    /\ ret = Ret("new", 1, "Ok", 1, FALSE, NoOp)
    /\ trace = << >>
    /\ regOwner = Null
    /\ regFatal = 0
    /\ regFires = 0
    /\ regFirst = "None"
    /\ regFired = "None"
    /\ regWarned = FALSE
    /\ closes = [h \in Handles |-> 0]
    /\ bkRep = [h \in Handles |-> NoReport]
    /\ rtCtx = NoCtx
    /\ rtCall = NoCall
    /\ devs \in DeviceTables
    /\ devIter = NoDeviceIter
    /\ devItems = << >>
    /\ devFiltered = << >>
    /\ devLookup = NoLookup

\* The user calls get_device_info_by_index(index).
DeviceByIndex(index) ==
    /\ devLookup' = [index |-> index] @@ GetDeviceInfoByIndex(index)
    /\ UNCHANGED <<devs, devIter, devItems, devFiltered>>
    /\ UNCHANGED <<lifeVars, dataVars>>

\* iter_devices_complete: the index a new DeviceIter starts at.
FirstIndex_Resumed(old) == old
FirstIndex(old) == 0

\* iter_devices_complete: a new DeviceIter over num_devices().
IterDevicesComplete ==
    /\ devIter' = [index |-> FirstIndex(devIter.index), num_devices |-> NumDevices,
                   view |-> "complete"]
    /\ devItems' = << >>
    /\ devFiltered' = << >>
    /\ UNCHANGED <<devs, devLookup>>
    /\ UNCHANGED <<lifeVars, dataVars>>

\* iter_devices: iter_devices_complete() wrapped in filter_map.
IterDevices ==
    /\ devIter' = [index |-> FirstIndex(devIter.index), num_devices |-> NumDevices,
                   view |-> "filtered"]
    /\ devItems' = << >>
    /\ devFiltered' = << >>
    /\ UNCHANGED <<devs, devLookup>>
    /\ UNCHANGED <<lifeVars, dataVars>>

\* What DeviceIter::next returns from the iterator state it, after its
\* `self.index += 1`: Option::None, or Some of the by-index result.
DeviceIterItem(it) ==
    LET index == it.index + 1
    IN  IF index > it.num_devices THEN None
        ELSE Some(GetDeviceInfoByIndex(Usize(index - 1)))

\* DeviceIter::next on the iterator iter_devices_complete returned.
DeviceIterNext ==
    /\ devIter.view = "complete"
    /\ devIter.index < devIter.num_devices + MaxEnds
    /\ devIter' = [devIter EXCEPT !.index = @ + 1]
    /\ devItems' = Append(devItems, DeviceIterItem(devIter))
    /\ UNCHANGED <<devs, devFiltered, devLookup>>
    /\ UNCHANGED <<lifeVars, dataVars>>

\* filter_map's next(): call the inner next until it gives None or an item
\* the closure maps to Some; `pulled` are the inner items of this call.
RECURSIVE FilterPull(_, _)
FilterPull(it, pulled) ==
    LET item == DeviceIterItem(it)
        it2 == [it EXCEPT !.index = @ + 1]
        all == Append(pulled, item)
    IN  IF item = None THEN [it |-> it2, pulled |-> all, out |-> None]
        ELSE IF item[1].tag = "Ok" THEN [it |-> it2, pulled |-> all, out |-> Some(item[1])]
        ELSE FilterPull(it2, all)

\* next() on the iterator iter_devices returned.
IterDevicesNext ==
    /\ devIter.view = "filtered"
    /\ devIter.index < devIter.num_devices + MaxEnds
    /\ LET r == FilterPull(devIter, << >>)
       IN  /\ devIter' = r.it
           /\ devItems' = devItems \o r.pulled
           /\ devFiltered' = Append(devFiltered, r.out)
    /\ UNCHANGED <<devs, devLookup>>
    /\ UNCHANGED <<lifeVars, dataVars>>

DevNext ==
    \/ \E index \in UsizeIndices : DeviceByIndex(index)
    \/ IterDevicesComplete
    \/ IterDevices
    \/ DeviceIterNext
    \/ IterDevicesNext

SpecDev == DevInit /\ [][DevNext]_vars
\* ================================================================ claims
Has(tr, e) == \E i \in 1..Len(tr) : tr[i] = e
\* The position of the first e in tr, 0 if there is none.
Pos(tr, e) == IF Has(tr, e) THEN CHOOSE i \in 1..Len(tr) : tr[i] = e /\ \A j \in 1..(i - 1) : tr[j] /= e
              ELSE 0
Count(tr, e) == Cardinality({i \in 1..Len(tr) : tr[i] = e})
Returned(op) == pc = "idle" /\ ret.op = op

C2_StopSwapsOnlyWhenQuiescent ==
    pc = "stop_swap" => (~bkRunning[ret.h] /\ rtIn[ret.h] = None)

\* C3: every native handle that was created and not destroyed has exactly one
\* owner, a Host or a Stream; rtaudio_destroy is called on a handle at most
\* once, only when it has no owner left, never a second time, and no backend
\* call is made on a destroyed handle.
C3_OneOwnerDestroyedOnce ==
    /\ ~uad
    /\ hostRaw \cup streamRaw \subseteq created
    /\ \A h \in created :
         /\ destroyed[h] <= 1
         /\ destroyed[h] = 0 => ((h \in hostRaw) /= (h \in streamRaw))
         /\ destroyed[h] = 1 => (h \notin hostRaw /\ h \notin streamRaw)

\* A handle that went from a Host into open_stream and back to a Host was
\* destroyed by dropping that Host.
C3_Witness ==
    /\ Returned("host_drop")
    /\ ctx[ret.h] = "freed"
    /\ destroyed[ret.h] = 1

\* C4: open_stream with neither endpoint makes no backend call and does not
\* register the error handler.
C4_NoEndpointRejectedBeforeBackend ==
    (ret.op = "open" /\ pc \in {"open_call", "open_rollback"}
        /\ pend.out = None /\ pend.in_ = None) =>
          (~Has(trace, "set_handler") /\ ~Has(trace, "open_stream"))

\* C5: whenever open_stream returns an error, on any of its failure paths,
\* the caller gets back a Host holding the handle it passed in, that handle
\* is not destroyed and belongs to no Stream, so the Host can be opened again.
C5_FailedOpenReturnsUsableHost ==
    (Returned("open") /\ ret.res /= "Ok") =>
        /\ ret.host = ret.h
        /\ ret.host /= Null
        /\ ret.h \in hostRaw
        /\ ret.h \notin streamRaw
        /\ destroyed[ret.h] = 0

\* open_stream failed on its last failure path, the sample rate query.
C5_Witness ==
    /\ Returned("open")
    /\ ret.res = "SystemError"
    /\ Has(trace, "get_sample_rate")
    /\ ret.h \in hostRaw

\* C6: whenever open_stream returns an error after calling the backend,
\* rtaudio_close_stream was called and the backend stream is closed, the
\* singleton does not hold the handler of that call, and the
\* CallbackContext was freed, after the close.
C6_FailedOpenRollsBack ==
    (Returned("open") /\ ret.res /= "Ok" /\ Has(trace, "open_stream")) =>
        /\ Has(trace, "close_stream")
        /\ Pos(trace, "open_stream") < Pos(trace, "close_stream")
        /\ ~bkOpen[ret.h]
        /\ slot /= ret.h
        /\ errTaken.handler /= ret.h
        /\ ctx[ret.h] = "freed"
        /\ Pos(trace, "close_stream") < Pos(trace, "ctx_free")

\* open_stream failed after the backend had opened the stream.
C6_Witness ==
    /\ Returned("open")
    /\ ret.res /= "Ok"
    /\ Has(trace, "get_latency")
    /\ ~Has(trace, "get_sample_rate")

\* C7: whenever start() returns an error, rtaudio_stop_stream was called and
\* the started flag is false.
C7_FailedStartNeverReportsStarted ==
    (Returned("start") /\ ret.res /= "Ok") =>
        (Has(trace, "stop_stream") /\ ~started[ret.h])

StartStep ==
    \/ pc = "idle" /\ pc' = "start_arm"
    \/ pc = "start_arm" /\ pc' = "idle"

StopIssuedOnStopped ==
    /\ pc = "idle"
    /\ nOps' = nOps + 1
    /\ ret'.op = "stop"
    /\ ~started[ret'.h]

\* C9: stop() on a stream whose flag is false makes no backend call and
\* changes nothing; a stop() that has returned leaves the flag false, having
\* called rtaudio_stop_stream once if the stream was started and not at all
\* otherwise, so a second stop() is such a no-op.
C9_StopIdempotent ==
    /\ [][StopIssuedOnStopped =>
            /\ pc' = "idle"
            /\ trace' = << >>
            /\ UNCHANGED <<handleVars, backendVars, streamVars, bridgeVars, rtIn, pend,
                           regVars>>]_vars
    /\ [](Returned("stop") =>
            /\ ~started[ret.h]
            /\ Count(trace, "stop_stream") = (IF ret.was THEN 1 ELSE 0))

\* stop() has returned from a stream whose flag was already false.
C9_Witness ==
    /\ Returned("stop")
    /\ ~ret.was
    /\ trace = << >>
    /\ bkOpen[ret.h]

\* C10: close() returns, from either state and whatever the backend reports
\* for the stop and the close, a Host on the same native handle, which is
\* not destroyed; rtaudio_stop_stream was called first exactly when the
\* stream was started, then rtaudio_close_stream.
C10_CloseReturnsSameHandle ==
    Returned("close") =>
        /\ ret.res = "Ok"
        /\ ret.host = ret.h
        /\ ret.h \in hostRaw
        /\ ret.h \notin streamRaw
        /\ destroyed[ret.h] = 0
        /\ ~Has(trace, "destroy")
        /\ Count(trace, "close_stream") = 1
        /\ Count(trace, "stop_stream") = (IF ret.was THEN 1 ELSE 0)
        /\ ret.was => Pos(trace, "stop_stream") < Pos(trace, "close_stream")
        /\ ~bkOpen[ret.h]
        /\ ~bkRunning[ret.h]

\* close() has returned from a started stream, the backend having reported
\* an error on the way.
C10_Witness ==
    /\ Returned("close")
    /\ ret.was
    /\ Count(trace, "eprintln") = 2
    /\ ret.h \in hostRaw

\* C11: a close() leaves a Host on which open_stream can be called again, and
\* every open_stream that returns Ok, a reopen after close() included, yields
\* a stopped stream holding the placeholder callback on the handle the Host
\* held, with the handler of that call as the current registration (in the
\* slot until a fatal notification takes it); the handle is neither created
\* nor destroyed on the way.
C11_ReopenAfterClose ==
    /\ Returned("close") => (ret.h \in hostRaw /\ closes[ret.h] > 0)
    /\ (Returned("open") /\ ret.res = "Ok") =>
          /\ ret.h \in streamRaw
          /\ ret.h \notin hostRaw
          /\ ret.h \in created
          /\ destroyed[ret.h] = 0
          /\ ~Has(trace, "create")
          /\ ~Has(trace, "destroy")
          /\ bkOpen[ret.h]
          /\ ctx[ret.h] = "live"
          /\ ~started[ret.h]
          /\ cb[ret.h] = NoOp
          /\ regOwner = ret.h
          /\ regFatal = 0 => slot = ret.h

\* open_stream has returned Ok on the Host a close() returned.
C11_Witness ==
    /\ Returned("open")
    /\ ret.res = "Ok"
    /\ closes[ret.h] = 1
    /\ slot = ret.h

StopStep ==
    \/ pc = "idle" /\ nOps' = nOps + 1 /\ ret'.op = "stop"
    \/ pc = "stop_swap" /\ ret.op = "stop" /\ pc' = "idle"

C13_ContextOutlivesBackendStream ==
    /\ \A h \in Handles :
          (bkOpen[h] \/ bkRunning[h] \/ rtIn[h] /= None) => ctx[h] = "live"
    /\ Has(trace, "ctx_free") =>
          /\ Has(trace, "close_stream")
          /\ Pos(trace, "close_stream") < Pos(trace, "ctx_free")

\* A started stream was dropped: its context is freed, after the close.
C13_Witness ==
    /\ Returned("drop")
    /\ ret.was
    /\ ctx[ret.h] = "freed"
    /\ Has(trace, "close_stream")

\* C14: for a notification carrying the warning code or the no-error code
\* the error path can neither lock and take from the slot nor find it
\* empty: only the immediate return is possible; and once such a
\* notification has arrived with no fatal one since, the registered handler
\* is still in the slot and nothing was or is being invoked.
C14_WarningLeavesHandler ==
    /\ \A code \in {"RTAUDIO_ERROR_NONE", "RTAUDIO_ERROR_WARNING"} :
          /\ ~ENABLED ErrTake(code)
          /\ ~ENABLED ErrMiss(code)
    /\ (regWarned /\ regOwner /= Null /\ regFatal = 0) =>
          (slot = regOwner /\ regFires = 0 /\ errTaken = NoTaken)

\* A warning arrived first; the fatal notification after it was delivered
\* to the handler.
C14_Witness ==
    /\ regWarned
    /\ regFatal = 1
    /\ regFires = 1
    /\ regFired = "same"
    /\ errTaken = NoTaken

\* C15: on open, start, stop and close a backend warning never makes the
\* operation fail, and every other backend error is returned to the caller:
\* an operation during which the backend reported a non-warning error that
\* the code printed ("eprintln" in its record) does not return Ok.  (A
\* warning maps to "Ok" in CheckForError and is never printed, and open and
\* start return the kind of the error they meet.)
C15_ErrorsAreReturned ==
    ((Returned("open") \/ Returned("start") \/ Returned("stop") \/ Returned("close"))
        /\ Has(trace, "eprintln")) => ret.res /= "Ok"

DeliveryStep == errTaken' /= errTaken

\* C16: the steps that deliver a fatal error (the take and the call of the
\* handler) change nothing of any Host or Stream: who owns which handle, the
\* started flags, the contexts and their callbacks, info, the backend streams
\* and the record of backend calls stay as they are; and a stream whose
\* handler has been invoked is still open and owned between operations.
C16_DeliveryChangesOnlyTheSlot ==
    /\ [][DeliveryStep =>
            UNCHANGED <<handleVars, backendVars, streamVars, rtIn, pc, nOps, pend, ret,
                        trace, closes, bkRep>>]_vars
    /\ []((regOwner /= Null /\ regFires > 0 /\ pc = "idle") =>
            (regOwner \in streamRaw /\ bkOpen[regOwner] /\ ctx[regOwner] = "live"))

\* The handler of a started, running stream has been invoked; the stream is
\* still started with the user's callback installed.
C16_Witness ==
    /\ regOwner /= Null
    /\ regFires = 1
    /\ errTaken = NoTaken
    /\ started[regOwner]
    /\ bkRunning[regOwner]
    /\ cb[regOwner] /= NoOp

\* C17 as stated: for every value the backend reports, info().max_frames is
\* the frame count it wrote back and info().sample_rate is the rate it
\* reported.
C17_InfoIsWhatBackendReported ==
    \A h \in streamRaw :
        /\ info[h].max_frames = bkRep[h].frames
        /\ info[h].sample_rate = bkRep[h].rate

\* C17, amended: info().max_frames is the frame count the backend wrote
\* back; info().sample_rate is the rate the backend reported when that is
\* positive, and the requested rate when the backend reported 0.
C17_InfoIsNegotiatedOrRequestedRate ==
    \A h \in streamRaw :
        /\ info[h].max_frames = bkRep[h].frames
        /\ bkRep[h].rate > 0 => info[h].sample_rate = bkRep[h].rate
        /\ bkRep[h].rate = 0 => info[h].sample_rate = OpenRequest.sample_rate

\* open_stream returned a stream for which the backend negotiated a frame
\* count and a rate that are not the ones asked for.
C17_Witness ==
    /\ Returned("open")
    /\ ret.res = "Ok"
    /\ bkRep[ret.h].frames /= OpenRequest.buffer_frames
    /\ bkRep[ret.h].rate /= OpenRequest.sample_rate
    /\ info[ret.h].max_frames = bkRep[ret.h].frames
    /\ info[ret.h].sample_rate = bkRep[ret.h].rate

\* The length a view of `channels` channels and `frames` frames has in the
\* given format: one element per sample, three bytes per packed sample.
C18_ViewLen(ptr, channels, frames, fmt) ==
    IF ptr /= "null" /\ channels > 0
    THEN (IF fmt = "SInt24" THEN channels * frames * 3 ELSE channels * frames)
    ELSE 0

\* C18: for each of the six sample formats, every frame count N and channel
\* counts Co, Ci, the output view has Co*N elements (Co*N*3 bytes when
\* packed) if the output pointer is non-null and Co > 0 and is empty
\* otherwise, the input view likewise and independently with Ci and the
\* input pointer, and a null pointer is never read through; this holds of
\* Buffers::from_raw on every input and of the view every invocation of the
\* data callback hands to the user callback.
C18_ViewLengthsAndNoNullDeref ==
    /\ \A out \in Pointers, in_ \in Pointers, N \in DataFrames,
          Co \in 0..2, Ci \in 0..2, fmt \in SampleFormats :
           LET v == BuffersFromRaw(out, in_, N, Co, Ci, fmt)
           IN  /\ v.variant = fmt
               /\ v.output = C18_ViewLen(out, Co, N, fmt)
               /\ v.input = C18_ViewLen(in_, Ci, N, fmt)
               /\ v.out_deref /= "null"
               /\ v.in_deref /= "null"
    /\ rtCall.invoked = 1 =>
           /\ rtCall.view.variant = rtCall.info.sample_format
           /\ rtCall.view.output = C18_ViewLen(rtCall.out, rtCall.info.out_channels,
                                               rtCall.frames, rtCall.info.sample_format)
           /\ rtCall.view.input = C18_ViewLen(rtCall.in_, rtCall.info.in_channels,
                                              rtCall.frames, rtCall.info.sample_format)
           /\ rtCall.view.out_deref /= "null"
           /\ rtCall.view.in_deref /= "null"

\* A duplex stream in the packed format is called with 256 frames, a valid
\* output pointer and a null input pointer: 2*256*3 output bytes, no input.
C18_Witness ==
    /\ rtCall.invoked = 1
    /\ rtCall.info.sample_format = "SInt24"
    /\ rtCall.info.out_channels = 2
    /\ rtCall.info.in_channels = 2
    /\ rtCall.frames = 256
    /\ rtCall.out = "valid"
    /\ rtCall.in_ = "null"
    /\ rtCall.view.output = 1536
    /\ rtCall.view.input = 0
    /\ rtCall.view.out_deref = "valid"
    /\ rtCall.view.in_deref = "none"

\* The stream of the scenario: Float32, two output channels, no input,
\* opened with OpenRequest (48000 Hz, 256 frames) and started.
C19_Scenario ==
    /\ 1 \in streamRaw
    /\ started[1]
    /\ rtCtx.sample_format = "Float32"
    /\ rtCtx.out_channels = 2
    /\ rtCtx.in_channels = 0

\* C19 as stated: in the scenario info().out_channels is 2 and every
\* invocation of the data callback, here even restricted to those the
\* backend makes with a valid output pointer and the frame count it
\* negotiated, has a Float32 output view of length 512 and an empty input
\* view.
C19_EveryOutputViewHas512 ==
    (C19_Scenario /\ rtCall.invoked = 1 /\ rtCall.out = "valid"
                  /\ rtCall.frames = info[1].max_frames) =>
        /\ info[1].out_channels = 2
        /\ rtCall.view.variant = "Float32"
        /\ rtCall.view.output = 512
        /\ rtCall.view.input = 0

\* C19, amended: in the scenario info().out_channels is 2 and every
\* invocation of the data callback has a Float32 view whose input is empty
\* and whose output has 2 * frames elements, frames being the count the
\* backend passed to that invocation (empty if it passed a null output
\* pointer); the length is 512 in the invocations that pass 256 frames, and
\* 2 * info().max_frames in those that pass the negotiated count.
C19_OutputViewIsTwiceTheFrames ==
    C19_Scenario =>
        /\ info[1].out_channels = 2
        /\ info[1].in_channels = 0
        /\ rtCall.invoked = 1 =>
              /\ rtCall.view.variant = "Float32"
              /\ rtCall.view.input = 0
              /\ rtCall.view.in_deref = "none"
              /\ rtCall.out = "valid" => rtCall.view.output = 2 * rtCall.frames
              /\ rtCall.out = "null" => rtCall.view.output = 0
              /\ (rtCall.out = "valid" /\ rtCall.frames = 256) => rtCall.view.output = 512
              /\ (rtCall.out = "valid" /\ rtCall.frames = info[1].max_frames) =>
                     rtCall.view.output = 2 * info[1].max_frames

\* The backend granted the 256 frames asked for and calls with them: the
\* user callback gets 512 output samples and no input.
C19_Witness ==
    /\ C19_Scenario
    /\ bkRep[1].frames = OpenRequest.buffer_frames
    /\ info[1].max_frames = 256
    /\ rtCall.invoked = 1
    /\ rtCall.out = "valid"
    /\ rtCall.frames = 256
    /\ rtCall.view.variant = "Float32"
    /\ rtCall.view.output = 512
    /\ rtCall.view.input = 0

\* What one teardown step may leave in the record after its backend call:
\* nothing, or the printed error.
C20_MaybeLogged == {<< >>, <<"eprintln">>}

\* C20: a Stream dropped without close(), with its started flag false or
\* true, clears the error slot first, then (only if the flag was true)
\* calls rtaudio_stop_stream and replaces the callback with the
\* placeholder, then calls rtaudio_close_stream, then rtaudio_destroy; an
\* error the backend reports after the stop or the close is printed, skips
\* none of the later steps and is never the result of the drop.
C20_DropTearsDownInOrder ==
    /\ ret.op = "drop" =>
          /\ ret.res \in {"Pending", "Ok"}
          /\ slot = Null
          /\ Len(trace) > 0 /\ trace[1] = "clear_handler"
    /\ (Returned("drop") /\ ~ret.was) =>
          /\ \E l \in C20_MaybeLogged :
                trace = <<"clear_handler", "close_stream">> \o l \o <<"destroy", "ctx_free">>
    /\ (Returned("drop") /\ ret.was) =>
          /\ \E k \in C20_MaybeLogged, l \in C20_MaybeLogged :
                trace = <<"clear_handler", "stop_stream">> \o k \o <<"set_noop", "close_stream">>
                           \o l \o <<"destroy", "ctx_free">>
    /\ Returned("drop") =>
          /\ ret.res = "Ok"
          /\ ret.h \notin streamRaw
          /\ ~bkOpen[ret.h]
          /\ ~bkRunning[ret.h]
          /\ destroyed[ret.h] = 1
          /\ cb[ret.h] = NoOp
          /\ ~started[ret.h]

\* A started stream was dropped, the backend reported an error after the
\* stop and again after the close: both printed, every step taken.
C20_Witness ==
    /\ Returned("drop")
    /\ ret.was
    /\ ret.res = "Ok"
    /\ trace = <<"clear_handler", "stop_stream", "eprintln", "set_noop", "close_stream",
                 "eprintln", "destroy", "ctx_free">>
    /\ destroyed[ret.h] = 1

\* A stream that was never started was dropped and the close reported an
\* error.
C20_WitnessStopped ==
    /\ Returned("drop")
    /\ ~ret.was
    /\ trace = <<"clear_handler", "close_stream", "eprintln", "destroy", "ctx_free">>

\* C21 as stated, its first half: a get_device_info_by_index call with an
\* index that is at least device_count() returns an error of kind
\* InvalidDevice or InvalidParameter, never a descriptor.
C21_IndexPastCountIsRejected ==
    (devLookup.tag /= "none" /\ UsizeAtLeast(devLookup.index, NumDevices)) =>
        /\ devLookup.tag = "Err"
        /\ devLookup.kind \in {"InvalidDevice", "InvalidParamter"}

\* What does hold: an index whose low 32 bits, read as a c_int, are not a
\* position of the backend's table is rejected with InvalidParameter.
C21_IndexOutsideTableAfterCastIsRejected ==
    (devLookup.tag /= "none"
       /\ (AsCInt(devLookup.index) < 0 \/ AsCInt(devLookup.index) >= NumDevices)) =>
        /\ devLookup.tag = "Err"
        /\ devLookup.kind = "InvalidParamter"

\* get_device_info_by_index(2^32) on a Host with one device returned the
\* descriptor of the device at index 0.
C21_Witness ==
    /\ devLookup.index = [hi |-> 2, lo |-> 0]
    /\ NumDevices = 1
    /\ devLookup.tag = "Ok"
    /\ devLookup.id = DeviceIdAt(0)

C22_IsDescriptor(x) == x /= None /\ x[1].tag = "Ok"
C22_IsItem(x) == x /= None

C22_WitnessFiltered ==
    /\ devIter.view = "filtered"
    /\ devIter.num_devices = 2
    /\ devs[1].scan = "RTAUDIO_ERROR_INVALID_DEVICE"
    /\ devFiltered = <<Some(DevOk(DeviceIdAt(1))), None>>

\* C23 as stated, its first half: the singleton's mutex is the only state
\* both threads access, so the CallbackContext is never written by the
\* control thread while the realtime thread is using it: the closure the
\* realtime thread is executing is the one the callback field holds.
C23_OnlyTheMutexIsShared ==
    \A h \in Handles : rtIn[h] /= None => rtIn[h] = Some(cb[h])

\* start() wrote a second closure into a CallbackContext while the realtime
\* thread was inside the first one.
C23_Witness ==
    /\ pc = "start_arm"
    /\ ret.was
    /\ rtIn[ret.h] = Some(ret.cb0)
    /\ ret.cb0 /= NoOp
    /\ cb[ret.h] = ret.arg
    /\ cb[ret.h] /= ret.cb0

\* C23, its second half: while one error notification is handled the guard
\* of the mutex is held by that notification alone, and the one closure
\* invoked is the handler it took out of the slot, which the slot no longer
\* holds.
C23_OneLockOneClosure ==
    /\ errTaken /= NoTaken => (errTaken.handler /= Null /\ slot = Null)
    /\ [][DeliveryStep =>
            \/ (errTaken = NoTaken /\ errTaken'.handler = slot /\ slot' = Null)
            \/ (errTaken /= NoTaken /\ errTaken' = NoTaken /\ slot' = slot)]_vars

\* C24 as stated: start() never replaces the callback of a stream whose
\* backend is running, not even when it is called on a stream that is
\* already Started: whenever start() has just written the callback field
\* the backend stream is not running.
C24_StartWritesCallbackOnlyWhenStopped ==
    (pc = "start_arm" /\ ret.op = "start") => ~bkRunning[ret.h]

\* start() was called on a Started, running stream and has replaced its
\* callback before making any backend call.
C24_Witness ==
    /\ pc = "start_arm"
    /\ ret.was
    /\ started[ret.h]
    /\ bkRunning[ret.h]
    /\ trace = <<"set_cb">>
    /\ cb[ret.h] = ret.arg
    /\ ret.cb0 \in Callbacks
    /\ ret.cb0 /= ret.arg

\* C25 as stated: the handler of an open stream to which no fatal error has
\* been delivered stays in the slot whatever is done with other Hosts and
\* Streams; so the handler that an open or a drop on one instance finds in
\* the slot and replaces is never that of another stream that is still
\* open.
C25_OtherInstancesLeaveTheHandler ==
    (pend.displaced /= Null /\ pend.displaced /= ret.h) =>
        ~(pend.displaced \in streamRaw /\ bkOpen[pend.displaced])

\* A second Host is opening a stream: the slot held the handler of the
\* first stream, still open, and now holds the second handler.
C25_Witness ==
    /\ pc = "open_call"
    /\ ret.op = "open"
    /\ pend.displaced /= Null
    /\ pend.displaced /= ret.h
    /\ pend.displaced \in streamRaw
    /\ bkOpen[pend.displaced]
    /\ slot = ret.h

\* A second stream is being dropped: the slot held the handler of another
\* stream, still open, and is now empty.
C25_WitnessDrop ==
    /\ pc = "drop_fin"
    /\ pend.displaced /= Null
    /\ pend.displaced /= ret.h
    /\ pend.displaced \in streamRaw
    /\ bkOpen[pend.displaced]
    /\ slot = Null

\* C26 as stated: whenever the control thread is between operations, a
\* stream whose started flag is false holds the placeholder callback in its
\* CallbackContext: after open, after stop() and after a failed start().
C26_StoppedStreamHoldsNoOp ==
    pc = "idle" => \A h \in streamRaw : ~started[h] => cb[h] = NoOp

\* The part that holds: after open and after a stop() that has returned the
\* context holds the placeholder and the flag is false.
C26_NoOpAfterOpenAndStop ==
    /\ (Returned("open") /\ ret.res = "Ok") => (~started[ret.h] /\ cb[ret.h] = NoOp)
    /\ (Returned("stop") /\ ret.was) => (~started[ret.h] /\ cb[ret.h] = NoOp)

\* start(c) on a stream that was not started has returned an error: the
\* flag is false and the context holds c.
C26_Witness ==
    /\ Returned("start")
    /\ ret.res /= "Ok"
    /\ ~ret.was
    /\ ~started[ret.h]
    /\ ret.arg \in Callbacks
    /\ cb[ret.h] = ret.arg

\* C27 as stated: from a successful start() until the next stop() every
\* invocation of the data callback runs the closure passed to that start();
\* so while a later start() on the still Started stream has not succeeded
\* (it is in progress or has returned an error), an invocation runs the
\* closure that was installed when that later start() began.
C27_InvocationsRunTheStartedCallback ==
    (ret.op = "start" /\ ret.was /\ ret.res /= "Ok" /\ rtIn[ret.h] /= None) =>
        rtIn[ret.h] = Some(ret.cb0)

\* The parts that hold: start() writes the callback field before it calls
\* rtaudio_start_stream, a start() that returned Ok leaves the field holding
\* its argument, and a stream that was stopped can be started with another
\* closure.
C27_InstallsBeforeArming ==
    /\ Returned("start") =>
          (Len(trace) >= 2 /\ trace[1] = "set_cb" /\ trace[2] = "start_stream")
    /\ (Returned("start") /\ ret.res = "Ok") => (cb[ret.h] = ret.arg /\ started[ret.h])
    /\ (pc = "start_arm" /\ ret.op = "start") => (trace = <<"set_cb">> /\ cb[ret.h] = ret.arg)

\* start(c2) on a stream Started with c1 has not returned Ok and the
\* realtime thread has entered an invocation that runs c2.
C27_Witness ==
    /\ ret.op = "start"
    /\ ret.was
    /\ ret.res /= "Ok"
    /\ ret.cb0 \in Callbacks
    /\ ret.arg /= ret.cb0
    /\ rtIn[ret.h] = Some(ret.arg)

C28_RealtimeWritesOnlyItsCopy ==
    /\ info[1].stream_time = 0
    /\ info[1] = [rtCtx EXCEPT !.stream_time = 0]
    /\ rtCall.invoked = 1 => rtCtx.stream_time = rtCall.stream_time

\* C29: the StreamInfo every invocation of the user data callback receives
\* has the stream_time the backend passed to that call of the entry point
\* and, in every other field, the values negotiated at open (those info()
\* reports); stream_time is written once in a call that invokes the user
\* callback and not at all in a call that does not.
C29_CallbackSeesBackendTimeAndNegotiatedInfo ==
    /\ [](rtCall.wrote_time = rtCall.invoked)
    /\ [](rtCall.invoked = 1 =>
          /\ rtCall.info.stream_time = rtCall.stream_time
          /\ [rtCall.info EXCEPT !.stream_time = 0] = info[1]
          /\ rtCall.info.max_frames = bkRep[1].frames
          /\ rtCall.info = rtCtx)
    /\ [](rtCall.invoked = 0 => rtCall.info = NoCtx)
    /\ [][rtCtx' /= rtCtx =>
            (rtCall'.invoked = 1 /\ rtCtx' = [rtCtx EXCEPT !.stream_time = rtCall'.stream_time])]_vars

\* The callback of a stream for which the backend negotiated 512 frames and
\* 44100 Hz is invoked with stream time 3.
C29_Witness ==
    /\ rtCall.invoked = 1
    /\ rtCall.stream_time = 3
    /\ rtCall.info.stream_time = 3
    /\ rtCall.info.max_frames = 512
    /\ rtCall.info.sample_rate = 44100
    /\ rtCall.info.latency = Some(64)
    /\ rtCall.info.sample_format = "SInt16"

\* The variables other than the record of the call itself.
C30_State == <<lifeVars, devVars, rtCtx>>

\* C30: one call of the realtime entry point invokes the user callback at
\* most once; with a null context pointer it returns 2 and changes nothing;
\* with a frame count of 0 it returns 0 without invoking the user callback
\* or writing the stream time; otherwise it invokes the user callback once
\* and returns 0.
C30_EntryPointInvokesAtMostOnce ==
    /\ [](/\ rtCall.invoked \in {0, 1}
          /\ (rtCall /= NoCall /\ rtCall.userdata = "null") =>
                (rtCall.ret = 2 /\ rtCall.invoked = 0 /\ rtCall.wrote_time = 0)
          /\ (rtCall.userdata /= "null" /\ rtCall.frames = 0) =>
                (rtCall.ret = 0 /\ rtCall.invoked = 0 /\ rtCall.wrote_time = 0)
          /\ (rtCall.userdata /= "null" /\ rtCall.frames /= 0) =>
                (rtCall.ret = 0 /\ rtCall.invoked = 1 /\ rtCall.wrote_time = 1))
    /\ [][(rtCall'.userdata = "null" \/ rtCall'.frames = 0) => UNCHANGED C30_State]_vars

\* After an invocation that set the stream time to 1, the entry point was
\* called with a valid context, 0 frames and stream time 2: it returned 0,
\* invoked nothing and the context still holds 1.
C30_Witness ==
    /\ rtCall.userdata = "valid"
    /\ rtCall.frames = 0
    /\ rtCall.stream_time = 2
    /\ rtCall.ret = 0
    /\ rtCall.invoked = 0
    /\ rtCtx.stream_time = 1

\* The entry point was called with a null context pointer and real frames.
C30_WitnessNullContext ==
    /\ rtCall.userdata = "null"
    /\ rtCall.frames = 256
    /\ rtCall.ret = 2
    /\ rtCall.invoked = 0
    /\ rtCtx.stream_time = 3

\* C31: a stop() on a stream whose started flag was true has returned: the
\* flag is false and the placeholder callback is installed, whether or not
\* the backend reported an error for rtaudio_stop_stream; such an error is
\* printed and is not the result of the call.
C31_StopAlwaysEndsStopped ==
    (Returned("stop") /\ ret.was) =>
        /\ ~started[ret.h]
        /\ cb[ret.h] = NoOp
        /\ ret.res = "Ok"
        /\ \/ trace = <<"stop_stream", "set_noop">>
           \/ trace = <<"stop_stream", "eprintln", "set_noop">>

\* stop() has returned from a Started stream for which the backend reported
\* an error and went on running.
C31_Witness ==
    /\ Returned("stop")
    /\ ret.was
    /\ trace = <<"stop_stream", "eprintln", "set_noop">>
    /\ bkRunning[ret.h]
    /\ ~started[ret.h]
    /\ cb[ret.h] = NoOp
    /\ ret.res = "Ok"

\* C32 as stated, its first half: the handler passed to an open_stream call
\* that returns an error is never invoked: when the call has failed and is
\* about to undo its registration, its handler has not run and is not
\* running.
C32_FailedOpenNeverInvokesItsHandler ==
    (pc = "open_rollback" /\ ret.op = "open" /\ regOwner = ret.h) =>
        (regFires = 0 /\ errTaken.handler /= ret.h)

\* C32, its second half: once close() or the drop of a stream has returned,
\* its handler is neither in the slot nor being invoked.
C32_NoInvocationAfterCloseOrDrop ==
    (Returned("close") \/ Returned("drop")) => (slot = Null /\ errTaken = NoTaken)

\* An open_stream call whose latency query failed is about to return the
\* error, and the handler passed to it has already been invoked.
C32_Witness ==
    /\ pc = "open_rollback"
    /\ ret.op = "open"
    /\ pend.err /= "Ok"
    /\ regOwner = ret.h
    /\ regFires = 1
    /\ regFired = "same"
    /\ errTaken = NoTaken

\* C33: under fair scheduling, with handlers and data callbacks that
\* return, the mutex of the singleton is always released again and every
\* control operation that has been issued, in particular every step that
\* locks the mutex (the rollback of a failed open, the end of close and of
\* drop), completes, whatever the realtime thread's error path does in
\* between.
C33_LockingOperationsComplete ==
    /\ (errTaken /= NoTaken) ~> (errTaken = NoTaken)
    /\ (pc /= "idle") ~> (pc = "idle")

\* The control thread is in the rollback of a failed open and has to wait
\* for the mutex, which the realtime thread holds while the handler runs.
C33_Witness ==
    /\ pc = "open_rollback"
    /\ errTaken /= NoTaken
    /\ ~ENABLED OpenRollback

\* The names the statement accepts: no NUL byte and at most 511 bytes.
C34_Accepted(name) == ~name.nul /\ name.len <= MAX_NAME_LENGTH - 1

\* The steps of open_stream: it goes on to register the handler and call the backend
\* only with a name that has no NUL byte and is at most 511 bytes long; with
\* any other name, and only with such a name, it returns at once: the
\* result is InvalidParamter, the Host comes back with the raw it had, no
\* backend call and no handler registration was made, and the singleton,
\* the backend, the streams and the CallbackContexts are as they were.
C34_OpenStepsFollowTheName ==
    [][\A h \in Handles, cfg \in OpenConfigs, name \in StreamNames :
         /\ OpenRegister(h, cfg[1], cfg[2], name) => C34_Accepted(name)
         /\ OpenInvalidOptions(h, cfg[1], cfg[2], name) =>
              /\ ~C34_Accepted(name)
              /\ pc' = "idle"
              /\ ret'.op = "open"
              /\ ret'.res = "InvalidParamter"
              /\ ret'.host = h
              /\ h \in hostRaw'
              /\ hostRaw' = hostRaw
              /\ trace' = << >>
              /\ UNCHANGED <<created, streamRaw, destroyed, uad, backendVars, streamVars,
                             bridgeVars, regVars, pend>>]_vars

\* Whenever an open_stream call can be issued on a Host, a name is rejected
\* at once if it is not accepted by the statement, and is not if it is.
C34_RejectedExactlyWhenNotAccepted ==
    \A h \in hostRaw, cfg \in OpenConfigs, name \in StreamNames :
        (pc = "idle" /\ nOps < MaxOps) =>
            ((ENABLED OpenInvalidOptions(h, cfg[1], cfg[2], name)) <=> ~C34_Accepted(name))

\* C34: a stream name is accepted exactly when it has no NUL byte and is at
\* most 511 bytes long, and a rejected name makes open_stream return
\* InvalidParamter with the unchanged Host before any backend call and
\* without registering the handler.
C34_NameDecidesBeforeAnyEffect ==
    /\ C34_OpenStepsFollowTheName
    /\ []C34_RejectedExactlyWhenNotAccepted

\* open_stream has returned the options error with no call made, while the
\* handler of another, open stream stays registered in the singleton.
C34_Witness ==
    /\ Returned("open")
    /\ ret.res = "InvalidParamter"
    /\ trace = << >>
    /\ ret.host = ret.h
    /\ ret.h \in hostRaw
    /\ slot \in streamRaw
    /\ regOwner = slot

\* C35: the latency of an open stream's info() is absent when the latency
\* the backend reported is not positive and is the reported value when it
\* is positive; the request plays no part in it.
C35_LatencyIsReportedOrAbsent ==
    \A h \in streamRaw :
        /\ bkRep[h].latency <= 0 => info[h].latency = None
        /\ bkRep[h].latency > 0 => info[h].latency = Some(bkRep[h].latency)

\* open_stream returned a stream for which the backend reported a negative
\* latency, while another open stream has a reported latency.
C35_Witness ==
    /\ Returned("open")
    /\ ret.res = "Ok"
    /\ bkRep[ret.h].latency < 0
    /\ info[ret.h].latency = None
    /\ \E g \in streamRaw : bkRep[g].latency > 0 /\ info[g].latency = Some(bkRep[g].latency)

====
